---- MODULE Spec2Model ----
(***************************************************************************)
(* Authentication backend: actix-web handlers login / register, the JWT    *)
(* helpers encode_jwt / decode_jwt, the AuthenticatedUser extractor and    *)
(* the process bootstrap in main.                                          *)
(*                                                                         *)
(* Cryptography is modelled symbolically: an HMAC signature is the pair    *)
(* (key, message), an Argon2 PHC hash string is the pair (salt, password). *)
(* A token string is the sequence of its dot-separated segments.           *)
(***************************************************************************)
EXTENDS Integers, Sequences, FiniteSets, Bags, TLC

VARIABLES
    phase,      \* position of main: "boot", "serving", "panicked", "exited"
    env,        \* process environment: JWT_SECRET, DATABASE_URL
    restarts,   \* number of times the process has been started again
    clock,      \* Utc::now() in seconds since the epoch
    ticks,      \* number of clock steps taken
    held,       \* the token string the client holds (last one issued)
    out,        \* outcome of the JWT call being returned to its caller
    seen,       \* token faults answered in this process lifetime
    users,      \* rows of the user table (external store)
    registered, \* history: id and form of every registration that was created
    req         \* bag of requests in flight: position and locals of each handler

vars == <<phase, env, restarts, clock, ticks, held, out, seen, users, registered, req>>

----------------------------------------------------------------------------
(* Bounds of the model *)

MaxTicks == 2

MaxRestarts == 1

MaxInFlight == 2

\* worker threads of the HTTP server
Workers == 1

StartClock == 1000

Deltas == {59, 60, 61, 24 * 3600}

Secrets == {"A", "B"}

Usernames == {"alice", "bob"}

Emails == {"a@x.com", "b@x.com"}

Passwords == {"pw1", "pw2"}

\* values SaltString::generate can return
Salts == {1}

----------------------------------------------------------------------------
(* Environment *)

Unset == "<unset>"

Envs == [JWT_SECRET : Secrets \cup {Unset}, DATABASE_URL : {"postgres://db", Unset}]

----------------------------------------------------------------------------
(* jsonwebtoken, as used by utils/jwt.rs *)

Validity == 24 * 3600

Leeway == 60

HS256Header == [alg |-> "HS256", typ |-> "JWT"]

Claims(sub, iat, exp) == [sub |-> sub, iat |-> iat, exp |-> exp]

\* HMAC over the signing input "header.payload" under a key
Sign(key, header, payload) == [key |-> key, msg |-> <<header, payload>>]

\* compact serialisation: header.payload.signature
encode(header, claims, key) == <<header, claims, Sign(key, header, claims)>>

Ok(v) == [tag |-> "Ok", val |-> v]

Err(e) == [tag |-> "Err", val |-> e]

Panic(m) == [tag |-> "Panic", val |-> m]

IsHeader(p) == DOMAIN p = {"alg", "typ"}

IsClaims(p) == DOMAIN p = {"sub", "iat", "exp"}

\* jsonwebtoken::decode with Validation::new(HS256) and the given leeway
decode(token, key, leeway, now) ==
    IF Len(token) < 3 THEN Err("InvalidToken")
    ELSE IF Len(token) > 3 \/ ~IsHeader(token[1]) THEN Err("Base64")
    ELSE IF token[1].alg # "HS256" THEN Err("InvalidAlgorithm")
    ELSE IF token[3] # Sign(key, token[1], token[2]) THEN Err("InvalidSignature")
    ELSE IF ~IsClaims(token[2]) THEN Err("Json")
    ELSE IF token[2].exp < now - leeway THEN Err("ExpiredSignature")
    ELSE Ok(token[2])

\* usize is 64 bits wide on the build's target. 2^64 is outside TLC's integers
\* and every timestamp of the model is below 2^30 in absolute value, so the
\* model's usize wraps at 2^30: as in the build, a cast is the identity on a
\* non-negative timestamp and sends a negative one above every timestamp.
UsizeModulus == 2^30

\* mutant: the timestamps go through a 16-bit integer on the way to usize
AsU16(t) == t % 65536

\* `t as usize` for an i64 t
AsUsize(t) == t % UsizeModulus

\* mutant: the token is signed with a literal key, not the configured secret
encode_jwt_fixed_key(username, e, now) ==
    IF e.JWT_SECRET = Unset THEN Panic("JWT_SECRET must be set")
    ELSE IF now < 0 THEN Panic("system time before Unix epoch")
    ELSE Ok(encode(HS256Header,
                   Claims(username, AsUsize(now), AsUsize(now + Validity)), "secret"))

\* Utc::now() panics when the system clock is before the epoch
encode_jwt(username, e, now) ==
    IF e.JWT_SECRET = Unset THEN Panic("JWT_SECRET must be set")
    ELSE IF now < 0 THEN Panic("system time before Unix epoch")
    ELSE Ok(encode(HS256Header,
                   Claims(username, AsUsize(now), AsUsize(now + Validity)),
                   e.JWT_SECRET))

\* mutant: the expiry check runs without leeway
decode_jwt_no_leeway(token, e, now) ==
    IF e.JWT_SECRET = Unset THEN Panic("JWT_SECRET must be set")
    ELSE decode(token, e.JWT_SECRET, 0, now)

\* mutant: the expiry is not validated (validation.validate_exp = false)
decode_jwt_no_exp(token, e, now) ==
    IF e.JWT_SECRET = Unset THEN Panic("JWT_SECRET must be set")
    ELSE decode(token, e.JWT_SECRET, Leeway, IF Len(token) = 3 /\ IsClaims(token[2])
                                             THEN token[2].exp ELSE now)

\* mutant: the signature is not compared (insecure_disable_signature_validation)
decode_jwt_unverified(token, e, now) ==
    IF e.JWT_SECRET = Unset THEN Panic("JWT_SECRET must be set")
    ELSE IF Len(token) = 3 /\ IsHeader(token[1]) /\ token[1].alg = "HS256"
    THEN decode(<<token[1], token[2], Sign(e.JWT_SECRET, token[1], token[2])>>,
                e.JWT_SECRET, Leeway, now)
    ELSE decode(token, e.JWT_SECRET, Leeway, now)

decode_jwt(token, e, now) ==
    IF e.JWT_SECRET = Unset THEN Panic("JWT_SECRET must be set")
    ELSE decode(token, e.JWT_SECRET, Leeway, now)

----------------------------------------------------------------------------
(* utils/auth_middleware.rs *)

ErrorUnauthorized(msg) == [tag |-> "Err", status |-> 401, text |-> msg]

Authenticated(username) == [tag |-> "Ok", status |-> 0, text |-> username]

Aborted(msg) == [tag |-> "Panic", status |-> 0, text |-> msg]

\* mutant: the extractor tells an expired token from an invalid one
TokenErrorDetailed(e) ==
    ErrorUnauthorized(IF e = "ExpiredSignature" THEN "Token expired" ELSE "Invalid token")

TokenError(e) == ErrorUnauthorized("Invalid or expired token")

\* a request's Authorization header: present or not, visible ASCII or not,
\* and the text split at byte 7
NoHeader == [present |-> FALSE, ascii |-> TRUE, prefix |-> "", rest |-> <<>>]

IsBearer(h) == h.present /\ h.ascii /\ h.prefix = "Bearer "

NotRun == [tag |-> "NotRun"]

from_request(h, e, now) ==
    IF ~h.present THEN ErrorUnauthorized("Authorization header missing")
    ELSE IF ~h.ascii THEN ErrorUnauthorized("Invalid Authorization header")
    ELSE IF h.prefix # "Bearer " THEN ErrorUnauthorized("Invalid Authorization scheme")
    ELSE LET r == decode_jwt(h.rest, e, now) IN
         CASE r.tag = "Ok" -> Authenticated(r.val.sub)
           [] r.tag = "Err" -> TokenError(r.val)
           [] OTHER -> Aborted(r.val)

----------------------------------------------------------------------------
(* Token strings a client can present *)

NoToken == <<>>

EmptyToken == <<[junk |-> ""]>>

JunkToken == <<[junk |-> "x"], [junk |-> "y"], [junk |-> "z"]>>

Truncated(t) == SubSeq(t, 1, 2)

Extended(t) == Append(t, [junk |-> "x"])

Tampered(t) ==
    <<t[1], [t[2] EXCEPT !.sub = IF @ = "alice" THEN "bob" ELSE "alice"], t[3]>>

\* tokens minted by some other holder of a key
OtherAlg(k) == encode([alg |-> "HS384", typ |-> "JWT"], Claims("alice", 0, 0), k)

NoExp(k) == encode(HS256Header, [sub |-> "alice"], k)

Presentable ==
    {EmptyToken, JunkToken}
      \cup {OtherAlg(k) : k \in Secrets} \cup {NoExp(k) : k \in Secrets}
      \cup (IF held = NoToken THEN {}
            ELSE {held, Truncated(held), Extended(held), Tampered(held)})

Headers ==
    {NoHeader, [present |-> TRUE, ascii |-> FALSE, prefix |-> "", rest |-> <<>>]}
      \cup {[present |-> TRUE, ascii |-> TRUE, prefix |-> "Basic ", rest |-> EmptyToken]}
      \cup {[present |-> TRUE, ascii |-> TRUE, prefix |-> "Bearer ", rest |-> t] :
               t \in Presentable}

WellFormed(t) ==
    /\ Len(t) = 3
    /\ IsHeader(t[1])
    /\ t[1].alg = "HS256"
    /\ IsClaims(t[2])

SignedBy(t, key) == Len(t) = 3 /\ t[3] = Sign(key, t[1], t[2])

\* the kind of fault a token string has for a process with environment e
FaultKind(t, e, now) ==
    IF ~WellFormed(t) THEN "malformed"
    ELSE IF ~SignedBy(t, e.JWT_SECRET) THEN "bad signature"
    ELSE IF now > t[2].exp + Leeway THEN "expired"
    ELSE "none"

----------------------------------------------------------------------------
(* State of the JWT side *)

NoOut == [op |-> "none"]

----------------------------------------------------------------------------
(* argon2 password hashing, as used by handlers/auth_handler.rs *)

\* the PHC string: algorithm, salt and the digest of (salt, password)
PHC(salt, password) == [alg |-> "argon2id", salt |-> salt, digest |-> <<salt, password>>]

Corrupt == [garbage |-> "not a PHC string"]

\* PasswordHash::new: parses a stored string
PasswordHash_new(stored) ==
    IF DOMAIN stored = {"alg", "salt", "digest"} THEN Ok(stored) ELSE Err("invalid PHC string")

\* Argon2::verify_password: recomputes the digest with the parsed salt
verify_password(password, parsed) == parsed.digest = <<parsed.salt, password>>

\* mutant: the Result of verify_password is dropped
verify_task_unchecked(password_input, password_hash_stored) ==
    LET parsed == PasswordHash_new(password_hash_stored) IN
    IF parsed.tag = "Err" THEN Err("Password hash parsing error")
    ELSE Ok("unit")

\* the closure login hands to web::block
verify_task(password_input, password_hash_stored) ==
    LET parsed == PasswordHash_new(password_hash_stored) IN
    IF parsed.tag = "Err" THEN Err("Password hash parsing error")
    ELSE IF verify_password(password_input, parsed.val) THEN Ok("unit")
    ELSE Err("Invalid password")

\* the closure register hands to web::block
hash_task(password_input, salt, kdf_ok) ==
    IF kdf_ok THEN Ok(PHC(salt, password_input)) ELSE Err("Password hashing error")

\* mutant: the pool's error is folded into the task's own error
block_flattened(ran, result) == IF ran THEN Ok(result) ELSE Ok(Err("BlockingError"))

\* web::block: the task's result, or a BlockingError when the pool did not run it
block(ran, result) == IF ran THEN Ok(result) ELSE Err("BlockingError")

----------------------------------------------------------------------------
(* HTTP responses of handlers/auth_handler.rs *)

HttpResponse(status, message) ==
    [status |-> status, body |-> [code |-> status, message |-> message]]

ValidationError ==
    [status |-> 400, body |-> [code |-> 400, message |-> "Validation error", errors |-> "e"]]

InternalServerError == HttpResponse(500, "Internal server error")

Created(id) ==
    [status |-> 201,
     body |-> [code |-> 201, message |-> "User registered successfully", user_id |-> id]]

\* mutant: the message is compared with ==, not searched
ContainsWhole(msg, needle) == msg = needle

\* str::contains on the messages the blocking task can produce
Contains(msg, needle) ==
    needle = "parsing error" /\ msg = "Password hash parsing error"

\* mutant: a wrong password gets a message of its own
login_response_detailed(verify_result) ==
    IF verify_result.tag = "Err" THEN InternalServerError
    ELSE IF verify_result.val.tag = "Ok" THEN HttpResponse(200, "Login successful")
    ELSE IF Contains(verify_result.val.val, "parsing error") THEN InternalServerError
    ELSE HttpResponse(401, "invalid password")

\* login, step 4: the nested result of web::block
login_response(verify_result) ==
    IF verify_result.tag = "Err" THEN InternalServerError
    ELSE IF verify_result.val.tag = "Ok" THEN HttpResponse(200, "Login successful")
    ELSE IF Contains(verify_result.val.val, "parsing error") THEN InternalServerError
    ELSE HttpResponse(401, "invalid credentials")

\* login, Ok(None) of the user query
login_not_found == HttpResponse(401, "invalid credentials")

\* register, Ok(Some(res)) of the duplicate query
register_conflict(res, form) ==
    IF res.username = form.username THEN HttpResponse(409, "username already exists")
    ELSE IF res.email = form.email THEN HttpResponse(409, "email already exists")
    ELSE HttpResponse(409, "user/email already exists")

----------------------------------------------------------------------------
(* The user table *)

SeedStores ==
    { {},
      {[id |-> 1, username |-> "bob", email |-> "b@x.com",
        password |-> Corrupt, active |-> TRUE]},
      {[id |-> 1, username |-> "bob", email |-> "b@x.com",
        password |-> PHC(1, "pw1"), active |-> FALSE]} }

\* mutant: the query does not filter on active
find_login_any(rows, form) == {u \in rows : u.username = form.username}

\* login's query: username = ? AND active = true
find_login(rows, form) == {u \in rows : u.username = form.username /\ u.active}

\* mutant: the duplicate query looks at the username only
find_duplicate_by_username(rows, form) == {u \in rows : u.username = form.username}

\* register's query: username = ? OR email = ?
find_duplicate(rows, form) ==
    {u \in rows : u.username = form.username \/ u.email = form.email}

\* the unique constraints on username and email, enforced by the store on insert
unique_violation(rows, row) ==
    \E u \in rows : u.username = row.username \/ u.email = row.email

RECURSIVE MaxId(_)
MaxId(rows) ==
    IF rows = {} THEN 0
    ELSE LET r == CHOOSE x \in rows : TRUE IN
         LET m == MaxId(rows \ {r}) IN IF r.id > m THEN r.id ELSE m

\* the ActiveModel built from (form, password_hash)
NewUser(form, password_hash, id) ==
    [id |-> id, username |-> form.username, email |-> form.email,
     password |-> password_hash, active |-> TRUE]

----------------------------------------------------------------------------
(* Requests in flight *)

NoForm == [username |-> "", email |-> "", password |-> ""]

NoResp == [status |-> 0]

NoHash == [none |-> TRUE]

Slot(op, pc, form, hash, target, dup, cause, resp) ==
    [op |-> op, pc |-> pc, form |-> form, hash |-> hash, target |-> target,
     dup |-> dup, cause |-> cause, resp |-> resp]

Done(op, form, target, dup, cause, resp) ==
    Slot(op, "done", form, NoHash, target, dup, cause, resp)

LoginForms == [username : Usernames, email : {""}, password : Passwords]

RegisterForms == [username : Usernames, email : Emails, password : Passwords]

Init ==
    /\ phase = "boot"
    /\ env \in Envs
    /\ restarts = 0
    /\ clock = StartClock
    /\ ticks = 0
    /\ held = NoToken
    /\ out = NoOut
    /\ seen = {}
    /\ users \in SeedStores
    /\ registered = {}
    /\ req = EmptyBag

----------------------------------------------------------------------------
(* main.rs *)

\* what the startup sequence of main ends in, given the environment
main(e, startup) ==
    IF e.DATABASE_URL = Unset THEN "panicked"
    ELSE IF startup = "ok" THEN "serving"
    ELSE IF startup = "bind failed" THEN "exited"
    ELSE "panicked"

Main ==
    /\ phase = "boot"
    /\ \E startup \in {"ok", "connect failed", "bad port", "bind failed"} :
          phase' = main(env, startup)
    /\ UNCHANGED <<env, restarts, clock, ticks, held, out, seen, users, registered, req>>

\* the process is started again, possibly with another environment; requests
\* in flight are lost, the user table and the clients' tokens are not
Restart ==
    /\ phase # "boot"
    /\ out = NoOut
    /\ restarts < MaxRestarts
    /\ restarts' = restarts + 1
    /\ phase' = "boot"
    /\ env' \in Envs
    /\ seen' = {}
    /\ req' = EmptyBag
    /\ UNCHANGED <<clock, ticks, held, out, users, registered>>

Tick ==
    /\ out = NoOut
    /\ ticks < MaxTicks
    /\ \E d \in Deltas : clock' = clock + d
    /\ ticks' = ticks + 1
    /\ UNCHANGED <<phase, env, restarts, held, out, seen, users, registered, req>>

----------------------------------------------------------------------------
(* utils/jwt.rs and utils/auth_middleware.rs as operations *)

\* a caller in the serving process issues a token for a subject
EncodeJwt ==
    /\ phase = "serving"
    /\ out = NoOut
    /\ \E s \in Usernames :
          LET r == encode_jwt(s, env, clock) IN
          /\ out' = [op |-> "encode_jwt", sub |-> s, res |-> r]
          /\ held' = IF r.tag = "Ok" THEN r.val ELSE held
    /\ UNCHANGED <<phase, env, restarts, clock, ticks, seen, users, registered, req>>

\* a request reaches a handler that takes an AuthenticatedUser
FromRequest ==
    /\ phase = "serving"
    /\ out = NoOut
    /\ \E h \in Headers :
          LET r == from_request(h, env, clock)
              kind == FaultKind(h.rest, env, clock) IN
          /\ out' = [op |-> "from_request", header |-> h, res |-> r,
                     dec |-> IF IsBearer(h) THEN decode_jwt(h.rest, env, clock)
                             ELSE NotRun]
          /\ seen' = IF IsBearer(h) /\ kind # "none"
                     THEN seen \cup {[kind |-> kind, res |-> r]}
                     ELSE seen
    /\ UNCHANGED <<phase, env, restarts, clock, ticks, held, users, registered, req>>

\* the outcome is handed to the caller
Return ==
    /\ out # NoOut
    /\ out' = NoOut
    /\ UNCHANGED <<phase, env, restarts, clock, ticks, held, seen, users, registered, req>>

NextJwt == Main \/ Restart \/ Tick \/ EncodeJwt \/ FromRequest \/ Return

InitJwt == Init /\ users = {}

SpecJwt == InitJwt /\ [][NextJwt]_vars

\* the environment of the serving process is changed from inside the process
\* (std::env::set_var / remove_var): env::var returns the new value from then on
SetVar ==
    /\ phase = "serving"
    /\ out = NoOut
    /\ \E s \in (Secrets \cup {Unset}) \ {env.JWT_SECRET} :
          env' = [env EXCEPT !.JWT_SECRET = s]
    /\ UNCHANGED <<phase, restarts, clock, ticks, held, out, seen, users, registered, req>>

\* one process lifetime, with its environment changing while it serves
NextEnv == Main \/ SetVar \/ EncodeJwt \/ FromRequest \/ Return

SpecEnv == InitJwt /\ [][NextEnv]_vars

\* encode_jwt alone, over system clocks on both sides of the epoch
ClockValues == {0 - Validity - 1, 0 - Validity, 0 - 1, 0, 1, StartClock, Validity}

InitClaims ==
    /\ phase = "boot"
    /\ env \in Envs
    /\ restarts = 0
    /\ clock \in ClockValues
    /\ ticks = 0
    /\ held = NoToken
    /\ out = NoOut
    /\ seen = {}
    /\ users = {}
    /\ registered = {}
    /\ req = EmptyBag

NextClaims == Main \/ EncodeJwt \/ Return

SpecClaims == InitClaims /\ [][NextClaims]_vars

----------------------------------------------------------------------------
(* handlers/auth_handler.rs: login *)

InFlight == BagToSet(req)

\* mutant: the hash / verify closure is called in the handler, not in web::block
OnWorkerInline(r) == r.pc \notin {"insert", "done"}

\* the handler of a request in flight holds a worker thread of the server,
\* except where it is suspended: on web::block (verify, hash), on the store
\* (insert), or finished (done)
OnWorker(r) == r.pc \notin {"verify", "hash", "insert", "done"}

\* worker threads held by handlers in flight
Busy == BagCardinality([r \in {x \in DOMAIN req : OnWorker(x)} |-> req[r]])

\* a request arrives: a free worker runs its handler up to its first suspension
\* or its return
Accept(slot) ==
    /\ phase = "serving"
    /\ BagCardinality(req) < MaxInFlight
    /\ Busy < Workers
    /\ req' = req (+) SetToBag({slot})

\* a suspended handler runs up to its next suspension or its return
Resume(r, slot) == req' = (req (-) SetToBag({r})) (+) SetToBag({slot})

RegisteredAs(id) == {g \in registered : g.id = id}

\* validation of the form and the user query, up to the hand-over to web::block
LoginFind ==
    /\ \/ \* form.validate() is Err
          Accept(Done("login", NoForm, 0, FALSE, "invalid input", ValidationError))
       \/ \* the query is Err
          Accept(Done("login", NoForm, 0, FALSE, "store failed", InternalServerError))
       \/ \E form \in LoginForms :
             IF find_login(users, form) = {}
             THEN Accept(Done("login", form, 0, FALSE,
                              IF \E u \in users : u.username = form.username
                              THEN "inactive" ELSE "not found",
                              login_not_found))
             ELSE \E res \in find_login(users, form) :
                     Accept(Slot("login", "verify", form, res.password, res.id,
                                 FALSE, "", NoResp))
    /\ UNCHANGED <<phase, env, restarts, clock, ticks, held, out, seen, users, registered>>

\* the blocking task and the match on its nested result
LoginVerify ==
    /\ \E r \in InFlight, ran \in BOOLEAN :
          /\ r.op = "login"
          /\ r.pc = "verify"
          /\ LET verify_result == block(ran, verify_task(r.form.password, r.hash))
                 cause == IF ~ran THEN "pool failed"
                          ELSE IF RegisteredAs(r.target) = {} THEN "seed row"
                          ELSE IF \E g \in RegisteredAs(r.target) :
                                     g.form.password = r.form.password
                          THEN "right password" ELSE "wrong password"
             IN Resume(r, Done("login", IF ran THEN r.form ELSE NoForm,
                               IF ran THEN r.target ELSE 0, FALSE, cause,
                               login_response(verify_result)))
    /\ UNCHANGED <<phase, env, restarts, clock, ticks, held, out, seen, users, registered>>

----------------------------------------------------------------------------
(* handlers/auth_handler.rs: register *)

\* mutant: every error of the insert is answered as an internal error
register_insert_response_opaque(result) ==
    IF result.tag = "Ok" THEN Created(result.val) ELSE InternalServerError

\* the match on the result of Entity::insert
register_insert_response(result) ==
    IF result.tag = "Ok" THEN Created(result.val)
    ELSE IF result.val = "UniqueConstraintViolation"
    THEN HttpResponse(409, "User with provided details already exists")
    ELSE InternalServerError

\* history: a registration with this username or this email was created before
Duplicates(form) ==
    \E g \in registered : g.form.username = form.username \/ g.form.email = form.email

\* validation of the form and the duplicate query
RegisterCheck ==
    /\ \/ \* form.validate() is Err
          \E dup \in {Duplicates(form) : form \in RegisterForms} :
             Accept(Done("register", NoForm, 0, dup, "invalid input", ValidationError))
       \/ \* the query is Err
          \E dup \in {Duplicates(form) : form \in RegisterForms} :
             Accept(Done("register", NoForm, 0, dup, "store failed", InternalServerError))
       \/ \E form \in RegisterForms :
             IF find_duplicate(users, form) = {}
             THEN Accept(Slot("register", "hash", form, NoHash, 0,
                              Duplicates(form), "", NoResp))
             ELSE \E res \in find_duplicate(users, form) :
                     Accept(Done("register", form, res.id, Duplicates(form),
                                 "duplicate", register_conflict(res, form)))
    /\ UNCHANGED <<phase, env, restarts, clock, ticks, held, out, seen, users, registered>>

\* the blocking task and the match on its nested result
RegisterHash ==
    /\ \E r \in InFlight, ran \in BOOLEAN, kdf_ok \in BOOLEAN, salt \in Salts :
          /\ r.op = "register"
          /\ r.pc = "hash"
          /\ LET hash_result == block(ran, hash_task(r.form.password, salt, kdf_ok)) IN
             IF hash_result.tag = "Ok" /\ hash_result.val.tag = "Ok"
             THEN Resume(r, [r EXCEPT !.pc = "insert", !.hash = hash_result.val.val])
             ELSE Resume(r, Done("register", NoForm, 0, r.dup,
                                 IF ran THEN "hash failed" ELSE "pool failed",
                                 InternalServerError))
    /\ UNCHANGED <<phase, env, restarts, clock, ticks, held, out, seen, users, registered>>

\* mutant: the row stays in the table when the insert reports an error
exec_insert_keeps_row(rows, row, result) == rows \cup {row}

\* the table after Entity::insert(new_user).exec(db) returned result
exec_insert(rows, row, result) ==
    IF result.tag = "Ok" THEN rows \cup {row} ELSE rows

\* the insert and the match on its result
RegisterInsert ==
    /\ \E r \in InFlight, db \in {"ok", "err"} :
          /\ r.op = "register"
          /\ r.pc = "insert"
          /\ LET id == MaxId(users) + 1
                 row == NewUser(r.form, r.hash, id)
                 result == IF db = "err" THEN Err("Conn")
                           ELSE IF unique_violation(users, row)
                           THEN Err("UniqueConstraintViolation")
                           ELSE Ok(id)
             IN
             /\ users' = exec_insert(users, row, result)
             /\ registered' = IF result.tag = "Ok"
                              THEN registered \cup {[id |-> id, form |-> r.form]}
                              ELSE registered
             /\ Resume(r, Done("register", IF db = "ok" THEN r.form ELSE NoForm,
                               0, r.dup,
                               IF result.tag = "Ok" THEN "created"
                               ELSE IF db = "err" THEN "store failed"
                               ELSE "unique violation",
                               register_insert_response(result)))
    /\ UNCHANGED <<phase, env, restarts, clock, ticks, held, out, seen>>

\* the response is written to the client
Release ==
    /\ \E r \in InFlight : r.pc = "done" /\ req' = req (-) SetToBag({r})
    /\ UNCHANGED <<phase, env, restarts, clock, ticks, held, out, seen, users, registered>>

\* the client goes away while the handler is suspended: its future is dropped
Abort ==
    /\ \E r \in InFlight :
          r.pc \in {"verify", "hash", "insert"} /\ req' = req (-) SetToBag({r})
    /\ UNCHANGED <<phase, env, restarts, clock, ticks, held, out, seen, users, registered>>

Login == LoginFind \/ LoginVerify

Register == RegisterCheck \/ RegisterHash \/ RegisterInsert

Leave == Release \/ Abort

NextAuth == Main \/ Login \/ Register \/ Leave

InitAuth == Init /\ env.JWT_SECRET = "A"

SpecAuth == InitAuth /\ [][NextAuth]_vars

\* the whole program: both sides together
Next == NextJwt \/ NextAuth

Spec == Init /\ [][Next]_vars

----------------------------------------------------------------------------
(* Properties of token issuance and validation (SpecJwt) *)

Validated == out.op = "from_request" /\ IsBearer(out.header)

Configured == env.JWT_SECRET # Unset

\* C4: the token returned by encode_jwt(s) validates, at the time of issuance and
\* under the secret it was signed with, to claims whose subject is s; an
\* authenticated request carrying it at that time is given the identity s.
C4_IssueThenValidate ==
    /\ (out.op = "encode_jwt" /\ out.res.tag = "Ok") =>
          /\ decode_jwt(out.res.val, env, clock).tag = "Ok"
          /\ decode_jwt(out.res.val, env, clock).val.sub = out.sub
    /\ (Validated /\ held # NoToken /\ out.header.rest = held
          /\ held[2].iat = clock /\ Configured /\ SignedBy(held, env.JWT_SECRET)) =>
          /\ out.dec.tag = "Ok"
          /\ out.dec.val.sub = held[2].sub
          /\ out.res = Authenticated(held[2].sub)

C4_Witness ==
    /\ Validated /\ held # NoToken /\ out.header.rest = held
    /\ held[2].iat = clock /\ SignedBy(held, env.JWT_SECRET)
    /\ out.res.tag = "Ok" /\ out.res.text = "bob"

\* C5: a well-formed token signed with the configured secret fails validation
\* with the expiry error exactly when the clock is past exp + 60 s and validates
\* otherwise; a token issued by encode_jwt still validates 24 h + 59 s after iat
\* and fails 24 h + 61 s after iat.
C5_ExpiryBoundary ==
    (Validated /\ Configured /\ WellFormed(out.header.rest)
       /\ SignedBy(out.header.rest, env.JWT_SECRET)) =>
       LET c == out.header.rest[2] IN
       /\ (out.dec = Err("ExpiredSignature")) <=> (clock > c.exp + 60)
       /\ (out.dec = Ok(c)) <=> (clock <= c.exp + 60)
       /\ (out.header.rest = held /\ clock = c.iat + 24 * 3600 + 59) => out.dec.tag = "Ok"
       /\ (out.header.rest = held /\ clock = c.iat + 24 * 3600 + 61) =>
             out.dec = Err("ExpiredSignature")

C5_Witness ==
    /\ Validated /\ Configured /\ out.header.rest = held
    /\ SignedBy(held, env.JWT_SECRET)
    /\ clock = held[2].iat + 24 * 3600 + 61
    /\ out.dec = Err("ExpiredSignature")

\* C6: a token issued by encode_jwt under one secret is rejected by decode_jwt,
\* as a signature mismatch, whenever the configured secret is another one, at
\* every clock time (before and after the token's expiry).
C6_OtherSecretRejected ==
    (Validated /\ Configured /\ held # NoToken /\ out.header.rest = held
       /\ held[3].key # env.JWT_SECRET) =>
       /\ out.dec = Err("InvalidSignature")
       /\ out.res.tag = "Err"

C6_Witness ==
    /\ Validated /\ Configured /\ held # NoToken /\ out.header.rest = held
    /\ held[3].key # env.JWT_SECRET
    /\ clock <= held[2].exp
    /\ out.res.tag = "Err"

C8_SecretRequiredAtStartup ==
    /\ phase = "serving" => Configured
    /\ out # NoOut => out.res.tag # "Panic"

\* C9: decode_jwt returns an error value for every faulty token string and never
\* panics, and the extractor turns that error into an unauthorized outcome.
C9_ValidateNeverPanics ==
    (Validated /\ FaultKind(out.header.rest, env, clock) # "none") =>
       /\ out.dec.tag = "Err"
       /\ out.res.tag = "Err" /\ out.res.status = 401

\* C11: every Claims value encode_jwt builds has exp = iat + 24 h and exp > iat
\* in its usize fields, at every system clock at which encode_jwt returns (the
\* epoch itself included); before the epoch no Claims value is built.
C11_ExpiryIsIssuedPlusValidity ==
    /\ (out.op = "encode_jwt" /\ out.res.tag = "Ok") =>
          LET c == out.res.val[2] IN
          /\ c.exp = c.iat + 24 * 3600
          /\ c.exp > c.iat
          /\ c.iat >= 0
    /\ (out.op = "encode_jwt" /\ clock < 0) => out.res.tag = "Panic"

C11_Witness ==
    /\ out.op = "encode_jwt" /\ out.res.tag = "Ok"
    /\ clock = 0
    /\ out.res.val[2].exp = 24 * 3600

----------------------------------------------------------------------------
(* Properties of login and register (SpecAuth) *)

Answered(r, op) == r.op = op /\ r.pc = "done"

\* C1: a login with the username of a stored user and a password that verifies
\* against the stored hash returns a token for that username in its success
\* outcome, and that token validates at once to claims with that subject.
C1_LoginReturnsValidToken ==
    \A r \in InFlight :
       (Answered(r, "login") /\ r.cause = "right password") =>
          /\ "token" \in DOMAIN r.resp.body
          /\ decode_jwt(r.resp.body.token, env, clock).tag = "Ok"
          /\ decode_jwt(r.resp.body.token, env, clock).val.sub = r.form.username

\* C2: a login that fails because the username is not in the store and a login
\* that fails because the password is wrong for an existing user get the same
\* response, status and body.
C2_SameUnauthorizedOutcome ==
    \A v, w \in InFlight :
       (Answered(v, "login") /\ v.cause = "not found"
          /\ Answered(w, "login") /\ w.cause = "wrong password") =>
          /\ v.resp = w.resp
          /\ v.resp.status = 401

C2_Witness ==
    \E v, w \in InFlight :
       /\ Answered(v, "login") /\ v.cause = "not found"
       /\ Answered(w, "login") /\ w.cause = "wrong password"
       /\ v.form.username # w.form.username

\* C3: a register request made after a registration with the same username or
\* the same email was created is never answered created and leaves the user
\* table as it was; when the form is valid and the duplicate query is answered,
\* it is rejected by the duplicate check with a conflict (409) outcome.
C3_DuplicateRejected ==
    [][\A r \in BagToSet(req') :
          (Answered(r, "register") /\ r.dup /\ CopiesIn(r, req') > CopiesIn(r, req)) =>
             /\ users' = users
             /\ r.resp.status # 201
             /\ r.cause \notin {"invalid input", "store failed"} =>
                   /\ r.resp.status = 409
                   /\ r.resp.body.message \in
                         {"username already exists", "email already exists"}]_vars

C3_Witness ==
    \E r \in InFlight :
       /\ Answered(r, "register") /\ r.dup
       /\ r.resp = HttpResponse(409, "email already exists")
       /\ \A g \in registered : g.form.username # r.form.username
       /\ Cardinality(users) = 1

\* C10: when the verification task of a login runs against the row stored by a
\* registration with password p, the login succeeds if the supplied password
\* is p and is answered unauthorized (401 "invalid credentials") if it is not.
C10_VerifyMatchesRegisteredPassword ==
    \A r \in InFlight :
       (Answered(r, "login") /\ r.cause \in {"right password", "wrong password"}) =>
          \A g \in RegisteredAs(r.target) :
             /\ g.form.username = r.form.username
             /\ (g.form.password = r.form.password) =>
                   r.resp = HttpResponse(200, "Login successful")
             /\ (g.form.password # r.form.password) =>
                   r.resp = HttpResponse(401, "invalid credentials")

C10_Witness ==
    \E v, w \in InFlight :
       /\ Answered(v, "login") /\ v.cause = "right password"
       /\ v.resp.status = 200
       /\ Answered(w, "login") /\ w.cause = "wrong password"
       /\ w.resp.status = 401
       /\ v.target = w.target

\* the stored hash of the row a login looked up does not parse
HashUnparsable(r) ==
    \E u \in users : u.id = r.target /\ PasswordHash_new(u.password).tag = "Err"

\* C12: a login whose verification task ran against a stored hash that does not
\* parse is answered 500 "Internal server error" for every supplied password,
\* never 401, and that response equals the one of a login that ends in a store
\* failure or in a failure of the blocking pool.
C12_MalformedHashIsInternalError ==
    /\ \A r \in InFlight :
          (Answered(r, "login") /\ r.cause = "seed row" /\ HashUnparsable(r)) =>
             /\ r.resp = InternalServerError
             /\ r.resp.status = 500
             /\ r.resp # login_response(block(TRUE, Err("Invalid password")))
    /\ \A v, w \in InFlight :
          (Answered(v, "login") /\ v.cause = "seed row" /\ HashUnparsable(v)
             /\ Answered(w, "login") /\ w.cause \in {"store failed", "pool failed"}) =>
             v.resp = w.resp

C12_Witness ==
    \E v, w \in InFlight :
       /\ Answered(v, "login") /\ v.cause = "seed row" /\ HashUnparsable(v)
       /\ v.form.password = "pw2"
       /\ Answered(w, "login") /\ w.cause = "pool failed"
       /\ v.resp = w.resp

\* C13: in one process lifetime a token issued by encode_jwt is never rejected
\* by decode_jwt for a signature mismatch, whatever is done to the process
\* environment between the two calls: both calls use the secret the process
\* started with.
C13_SecretFixedAfterStartup ==
    (Validated /\ held # NoToken /\ out.header.rest = held) =>
       /\ out.dec # Err("InvalidSignature")
       /\ out.dec.tag # "Panic"

Offloaded(r) == r.pc \in {"verify", "hash"}

\* a login that needs no hashing (a form that does not validate, a username
\* with no active row) is accepted and answered in this step
AnswerAtOnce ==
    /\ LoginFind
    /\ \E r \in BagToSet(req') :
          /\ Answered(r, "login")
          /\ r.cause \in {"invalid input", "not found", "inactive"}
          /\ req' = req (+) SetToBag({r})

C15_NoPartialRegistration ==
    [][/\ users' # users =>
             \E r \in InFlight :
                /\ r.op = "register" /\ r.pc = "insert"
                /\ r.hash \in {PHC(salt, r.form.password) : salt \in Salts}
                /\ \E row \in users' \ users :
                      /\ users' = users \cup {row}
                      /\ row.password = r.hash
                /\ Cardinality(users') = Cardinality(users) + 1
                /\ req' = (req (-) SetToBag({r})) (+)
                             SetToBag({Done("register", r.form, 0, r.dup, "created",
                                            Created(MaxId(users) + 1))})
       /\ \A r \in InFlight :
             (r.pc = "hash" /\ req' = req (-) SetToBag({r})) => users' = users
       /\ \A r \in BagToSet(req') :
             (Answered(r, "register") /\ r.resp.status # 201
                /\ CopiesIn(r, req') > CopiesIn(r, req)) => users' = users]_vars

C15_Witness ==
    \E r \in InFlight :
       /\ Answered(r, "register") /\ r.cause = "unique violation"
       /\ r.resp.status = 409
       /\ Cardinality(registered) = 1
       /\ Cardinality(users) = 1

Shares(f, g) == f.username = g.username \/ f.email = g.email

\* C16: with a store that enforces the unique constraints on insert, register
\* requests that share a username or an email and run concurrently, in every
\* interleaving of their steps, end with at most one of them created; one that
\* loses at the duplicate query or at the insert is answered 409, not 500; and
\* the table never holds two rows with the same username or the same email.
C16_ConcurrentRegisterOneWinner ==
    /\ \A u, v \in users : Shares(u, v) => u = v
    /\ \A g, h \in registered : Shares(g.form, h.form) => g = h
    /\ \A g \in registered, w \in InFlight :
          (Answered(w, "register")
             /\ w.cause \in {"created", "duplicate", "unique violation"}
             /\ Shares(g.form, w.form)
             /\ w.resp # Created(g.id)) =>
             /\ w.resp.status = 409
             /\ w.resp.status # 500
    /\ \A w \in InFlight :
          (Answered(w, "register") /\ w.cause = "unique violation") =>
             w.resp = HttpResponse(409, "User with provided details already exists")

\* both requests passed the duplicate query before either inserted
C16_Witness ==
    \E v, w \in InFlight :
       /\ Answered(v, "register") /\ v.cause = "created" /\ ~v.dup
       /\ Answered(w, "register") /\ w.cause = "unique violation" /\ ~w.dup
       /\ v.form.username # w.form.username
       /\ v.form.email = w.form.email
       /\ w.resp.status = 409
       /\ Cardinality(users) = 1

\* the times the clock of the model can show
ClockTimes == {StartClock + a + b : a, b \in Deltas \cup {0}}

\* the tokens encode_jwt can have returned up to now under the secret of e
Issued(e, now) ==
    {encode_jwt(sub, e, c).val : sub \in Usernames, c \in {x \in ClockTimes : x <= now}}

\* C17: under the secret it was issued with, a token validates at every time
\* from its issuance up to exp + 60 s, whatever was issued, validated or
\* restarted in between, and fails as expired after that; a validation of it
\* ends in one of these two ways only; and while the secret stays and the clock
\* does not go back, a token whose validation fails as expired fails as expired
\* in the next state too.
C17_TokenLifecycle ==
    /\ [](Configured =>
            /\ \A t \in Issued(env, clock) :
                  /\ clock <= t[2].exp + Leeway => decode_jwt(t, env, clock) = Ok(t[2])
                  /\ clock > t[2].exp + Leeway =>
                        decode_jwt(t, env, clock) = Err("ExpiredSignature")
            /\ (Validated /\ out.header.rest \in Issued(env, clock)) =>
                  /\ out.dec = decode_jwt(out.header.rest, env, clock)
                  /\ out.dec \in {Ok(out.header.rest[2]), Err("ExpiredSignature")}
                  /\ (out.dec.tag = "Ok") <=> (out.res.tag = "Ok"))
    /\ [][(Configured /\ env'.JWT_SECRET = env.JWT_SECRET /\ clock' >= clock) =>
             \A t \in Issued(env, clock) :
                decode_jwt(t, env, clock) = Err("ExpiredSignature") =>
                   decode_jwt(t, env', clock') = Err("ExpiredSignature")]_vars

\* a token that validated a day after its issuance fails as expired a day later
C17_Witness ==
    /\ Validated /\ Configured /\ held # NoToken /\ out.header.rest = held
    /\ held \in Issued(env, clock)
    /\ clock = held[2].iat + 2 * Validity
    /\ out.dec = Err("ExpiredSignature")
    /\ restarts = 1

\* C18: a login whose verification task the blocking pool did not run is
\* answered 500, never 401 and never 200; a register whose hashing task the pool
\* did not run is answered 500 in a step that inserts no row; a login is
\* answered 401 after the user query found a row only when the task ran and
\* found the password not matching.
C18_PoolFailureIsInternalError ==
    /\ [](/\ \A r \in InFlight :
               (r.pc = "done" /\ r.cause = "pool failed") =>
                  /\ r.resp = InternalServerError
                  /\ r.resp.status \notin {200, 201, 401}
          /\ \A r \in InFlight :
               (r.op = "login" /\ r.pc = "verify") =>
                  /\ login_response(block(FALSE, verify_task(r.form.password, r.hash)))
                        = InternalServerError
                  /\ login_response(block(TRUE, verify_task(r.form.password, r.hash))).status
                        = 401 => ~verify_password(r.form.password, r.hash)
          /\ \A r \in InFlight :
               (Answered(r, "login") /\ r.resp.status = 401) =>
                  r.cause \in {"not found", "inactive", "wrong password"})
    /\ [][\A r \in BagToSet(req') :
             (Answered(r, "register") /\ r.cause = "pool failed"
                /\ CopiesIn(r, req') > CopiesIn(r, req)) =>
                /\ users' = users
                /\ r.resp.status = 500]_vars

C18_Witness ==
    \E v, w \in InFlight :
       /\ Answered(v, "login") /\ v.cause = "pool failed" /\ v.resp.status = 500
       /\ Answered(w, "register") /\ w.cause = "pool failed" /\ w.resp.status = 500
       /\ registered # {}

\* C19: the extractor returns an AuthenticatedUser exactly when the header is
\* present, starts with "Bearer " and the rest is a token that validates (well
\* formed, signed with the secret, not expired); the username is then the sub of
\* the token's claims; every other request is answered 401.
C19_IdentityOnlyFromValidToken ==
    out.op = "from_request" =>
       /\ (out.res.tag = "Ok") <=> (IsBearer(out.header) /\ out.dec.tag = "Ok")
       /\ (out.res.tag = "Ok") <=>
             (IsBearer(out.header) /\ FaultKind(out.header.rest, env, clock) = "none")
       /\ out.res.tag = "Ok" => out.res = Authenticated(out.header.rest[2].sub)
       /\ out.res.tag # "Ok" => (out.res.tag = "Err" /\ out.res.status = 401)

\* the row a login was matched with is active
TargetActive(r) == \E u \in users : u.id = r.target /\ u.active

\* C20: a login with the username of a row that is not active is answered, for
\* every password (the one stored with the row included), with the 401 response
\* of an unknown username and without reaching password verification; no login
\* is answered 200 for a row that is not active; and no step of a login changes
\* the user table.
C20_InactiveUserCannotLogin ==
    /\ [](/\ \A r \in InFlight :
               (Answered(r, "login") /\ r.cause = "inactive") =>
                  /\ r.resp = login_not_found
                  /\ r.resp = HttpResponse(401, "invalid credentials")
                  /\ \A u \in users : u.username = r.form.username => ~u.active
          /\ \A v, w \in InFlight :
               (Answered(v, "login") /\ v.cause = "inactive"
                  /\ Answered(w, "login") /\ w.cause = "not found") => v.resp = w.resp
          /\ \A r \in InFlight :
               (r.op = "login" /\ r.pc = "verify") => TargetActive(r)
          /\ \A r \in InFlight :
               (Answered(r, "login") /\ r.resp.status = 200) => TargetActive(r)
          /\ \A r \in InFlight, u \in users :
               (r.op = "login" /\ r.form.username = u.username /\ ~u.active) =>
                  (r.pc = "done" /\ r.resp.status # 200))
    /\ [][\A r \in BagToSet(req') :
             (r.op = "login" /\ CopiesIn(r, req') > CopiesIn(r, req)) =>
                /\ users' = users
                /\ registered' = registered]_vars

\* the stored password of the inactive row is supplied
C20_Witness ==
    \E v, w \in InFlight :
       /\ Answered(v, "login") /\ v.cause = "inactive"
       /\ \E u \in users :
             /\ u.username = v.form.username /\ ~u.active
             /\ verify_task(v.form.password, u.password) = Ok("unit")
       /\ v.resp.status = 401
       /\ Answered(w, "login") /\ w.cause = "not found"
       /\ v.resp = w.resp

====
